---------------------------- MODULE Spec2Model ----------------------------
(***************************************************************************)
(* A model of the E4 streaming-server client, src/e4stream/client.py and   *)
(* src/e4stream/messages.py.                                               *)
(*                                                                         *)
(* Text is modelled character by character: a str (and the ASCII bytes it  *)
(* encodes to or is decoded from) is a sequence of one-character strings,  *)
(* so that equality, containment, splitting and number parsing are         *)
(* computed as Python computes them.  The texts of the model are ASCII,    *)
(* on which encode() and decode('utf-8') map each character to the byte    *)
(* of the same code and back.                                              *)
(*                                                                         *)
(* Name binding.  client.py reads `config.DEFAULT_IP` and `msg.SEND`,      *)
(* `msg.RECV` after `import config as cfg` and `import messages as msg`.   *)
(* The model binds these names as the imports intend: config is the        *)
(* configuration module (not part of the sources), msg.SEND is _Send and   *)
(* msg.RECV is _Receive of messages.py.  Everything else is evaluated as   *)
(* Python evaluates it.                                                    *)
(***************************************************************************)
EXTENDS Integers, Sequences, FiniteSets, TLC

(***************************************************************************)
(* Bounds of the model.                                                    *)
(***************************************************************************)
\* the number of socket objects a behaviour makes (reset() makes a new one)
MaxSockets == 2
\* the number of complete lines in one text returned by recv() to get_data
MaxLines == 2

(***************************************************************************)
(* str operations.                                                         *)
(***************************************************************************)
\* a in b, for str a and b
Contains(a, b) ==
    \E i \in 1..(Len(b) - Len(a) + 1) : SubSeq(b, i, i + Len(a) - 1) = a

\* s.replace(a, b) for one-character a and b
Replace(s, a, b) == [i \in 1..Len(s) |-> IF s[i] = a THEN b ELSE s[i]]

\* the characters str.split() with no argument treats as separators
Whitespace == {" ", "\t", "\n", "\r"}

RECURSIVE SplitOn(_, _, _)
\* the pieces of s between the characters of seps, the piece cur being open;
\* empty pieces are kept
SplitOn(s, seps, cur) ==
    IF s = <<>> THEN <<cur>>
    ELSE IF Head(s) \in seps THEN <<cur>> \o SplitOn(Tail(s), seps, <<>>)
    ELSE SplitOn(Tail(s), seps, Append(cur, Head(s)))

\* s.split(): the maximal runs of non-whitespace characters
Tokens(s) == SelectSeq(SplitOn(s, Whitespace, <<>>), LAMBDA t : t # <<>>)

Digits == {"0", "1", "2", "3", "4", "5", "6", "7", "8", "9"}

DigitVal(d) ==
    CASE d = "0" -> 0 [] d = "1" -> 1 [] d = "2" -> 2 [] d = "3" -> 3
      [] d = "4" -> 4 [] d = "5" -> 5 [] d = "6" -> 6 [] d = "7" -> 7
      [] d = "8" -> 8 [] d = "9" -> 9

RECURSIVE IntVal(_)
\* the number a sequence of digits denotes
IntVal(ds) ==
    IF ds = <<>> THEN 0
    ELSE 10 * IntVal(SubSeq(ds, 1, Len(ds) - 1)) + DigitVal(ds[Len(ds)])

RECURSIVE StripZeros(_)
\* a sequence of fraction digits without its trailing zeros
StripZeros(ds) ==
    IF ds # <<>> /\ ds[Len(ds)] = "0" THEN StripZeros(SubSeq(ds, 1, Len(ds) - 1))
    ELSE ds

AllDigits(t) == \A i \in 1..Len(t) : t[i] \in Digits

\* Whether float(t) accepts t.  The texts of the model are made of letters,
\* digits, "_", ",", "." and whitespace, and hold none of "inf", "nan",
\* "infinity", so float accepts exactly: digits with at most one "." and at
\* least one digit.
IsFloat(t) ==
    LET parts == SplitOn(t, {"."}, <<>>)
    IN  /\ Len(parts) \in {1, 2}
        /\ \A i \in 1..Len(parts) : AllDigits(parts[i])
        /\ \E i \in 1..Len(parts) : parts[i] # <<>>

\* float(t) for a t it accepts: the integer part and the fraction digits
\* without trailing zeros, so that equal numbers are equal values
FloatVal(t) ==
    LET parts == SplitOn(t, {"."}, <<>>)
    IN  [int  |-> IntVal(parts[1]),
         frac |-> IF Len(parts) = 2 THEN StripZeros(parts[2]) ELSE <<>>]

(***************************************************************************)
(* The command and acknowledgement texts of client.py, lines 12-22.        *)
(***************************************************************************)
COMMAND_PAUSE == <<"p", "a", "u", "s", "e", " ", "O", "N", "\r", "\n">>
COMMAND_RESUME == <<"p", "a", "u", "s", "e", " ", "O", "F", "F", "\r", "\n">>
COMMAND_DISCONNECT ==
    <<"d", "e", "v", "i", "c", "e", "_", "d", "i", "s", "c", "o", "n", "n",
      "e", "c", "t", "\r", "\n">>
COMMAND_LIST ==
    <<"d", "e", "v", "i", "c", "e", "_", "l", "i", "s", "t", "\r", "\n">>
COMMAND_DEV_CONNECT(device_id) ==
    <<"d", "e", "v", "i", "c", "e", "_", "c", "o", "n", "n", "e", "c", "t",
      " ">> \o device_id \o <<"\r", "\n">>
COMMAND_SUBSCRIBE(subscription) ==
    <<"d", "e", "v", "i", "c", "e", "_", "s", "u", "b", "s", "c", "r", "i",
      "b", "e", " ">> \o subscription \o <<" ", "O", "N", "\r", "\n">>
SUB_ACK_OK(subscription) ==
    <<"R", " ", "d", "e", "v", "i", "c", "e", "_", "s", "u", "b", "s", "c",
      "r", "i", "b", "e", " ">> \o subscription \o <<" ", "O", "K", "\n">>
DEV_ACK_OK ==
    <<"R", " ", "d", "e", "v", "i", "c", "e", "_", "c", "o", "n", "n", "e",
      "c", "t", " ", "O", "K", "\n">>
PAUSE_ON_ACK == <<"R", " ", "p", "a", "u", "s", "e", " ", "O", "N", "\n">>
PAUSE_OFF_ACK ==
    <<"R", " ", "p", "a", "u", "s", "e", " ", "O", "F", "F", "\n">>
DISCONNECT_MESSAGE ==
    <<"c", "o", "n", "n", "e", "c", "t", "i", "o", "n", " ", "l", "o", "s",
      "t", " ", "t", "o", " ", "d", "e", "v", "i", "c", "e">>

(***************************************************************************)
(* The templates of messages.py that client.py calls.  A lambda in an Enum *)
(* body is a plain function of the class, so msg.SEND.SUBSCRIBE_L(x) and   *)
(* msg.RECV.SUB_OK_L(x) are str.                                           *)
(***************************************************************************)
SEND_SUBSCRIBE_L(subscription) ==
    <<"d", "e", "v", "i", "c", "e", "_", "s", "u", "b", "s", "c", "r", "i",
      "b", "e", " ">> \o subscription \o <<" ", "O", "N", "\r", "\n">>
RECV_SUB_OK_L(subscription) ==
    <<"R", " ", "d", "e", "v", "i", "c", "e", "_", "s", "u", "b", "s", "c",
      "r", "i", "b", "e", " ">> \o subscription \o <<" ", "O", "K", "\n">>

\* The values of the other members of _Send and _Receive.
SEND_PAUSE ==
    <<"p", "a", "u", "s", "e", " ", "O", "N", "\r", "\n">>
SEND_RESUME ==
    <<"p", "a", "u", "s", "e", " ", "O", "F", "F", "\r", "\n">>
SEND_DISCONNECT ==
    <<"d", "e", "v", "i", "c", "e", "_", "d", "i", "s", "c", "o", "n", "n",
      "e", "c", "t", "\r", "\n">>
SEND_LIST ==
    <<"d", "e", "v", "i", "c", "e", "_", "l", "i", "s", "t", "\r", "\n">>
SEND_CONNECT_L(device_id) ==
    <<"d", "e", "v", "i", "c", "e", "_", "c", "o", "n", "n", "e", "c", "t",
      " ">> \o device_id \o <<"\r", "\n">>
RECV_DEV_OK ==
    <<"R", " ", "d", "e", "v", "i", "c", "e", "_", "c", "o", "n", "n", "e",
      "c", "t", " ", "O", "K", "\n">>
RECV_PAUSE_ON_ACK ==
    <<"R", " ", "p", "a", "u", "s", "e", " ", "O", "N", "\n">>
RECV_PAUSE_OFF_ACK ==
    <<"R", " ", "p", "a", "u", "s", "e", " ", "O", "F", "F", "\n">>
RECV_DISCONNECT_MESSAGE ==
    <<"c", "o", "n", "n", "e", "c", "t", "i", "o", "n", " ", "l", "o", "s",
      "t", " ", "t", "o", " ", "d", "e", "v", "i", "c", "e", "\n">>

(***************************************************************************)
(* The constructor's arguments and the server's side of the transport:     *)
(* what recv() may return.                                                 *)
(***************************************************************************)
\* the longest subscription list given to the constructor
MaxSubs == 2

DeviceIds == {<<"A", "1">>, <<"B", "2">>}
AllCodes == <<<<"a", "c", "c">>, <<"b", "v", "p">>, <<"g", "s", "r">>, <<"t", "a", "g">>>>
\* the empty list and the longest list
SubscriptionLists ==
    {<<>>, SubSeq(AllCodes, 1, IF MaxSubs < Len(AllCodes) THEN MaxSubs ELSE Len(AllCodes))}

\* an outcome of recv(): the text received, or the read timeout
Data(t) == [kind |-> "data", text |-> t]
Timeout == [kind |-> "timeout", text |-> <<>>]

\* device-list responses: one lists device A1 only, one lists no device
LIST_A1 ==
    <<"R", " ", "d", "e", "v", "i", "c", "e", "_", "l", "i", "s", "t", " ",
      "1", " ", "|", " ", "A", "1", " ", "E", "4", "\n">>
LIST_NONE ==
    <<"R", " ", "d", "e", "v", "i", "c", "e", "_", "l", "i", "s", "t", " ",
      "0", "\n">>
DEV_ERR ==
    <<"R", " ", "d", "e", "v", "i", "c", "e", "_", "c", "o", "n", "n", "e",
      "c", "t", " ", "E", "R", "R", "\n">>
PAUSE_ERR == <<"R", " ", "p", "a", "u", "s", "e", " ", "E", "R", "R", "\n">>
SUB_FAIL(subscription) ==
    <<"R", " ", "d", "e", "v", "i", "c", "e", "_", "s", "u", "b", "s", "c",
      "r", "i", "b", "e", " ">> \o subscription \o <<" ", "F", "A", "I", "L", "\n">>
\* a data line of the stream
GSR_LINE == <<"E", "4", "_", "G", "s", "r", " ", "1", ",", "5", " ", "2", ".", "5">>

\* What the server may answer to each command.  For the device list: a list
\* that holds A1 only, a list of no device.  For the other commands: the
\* expected text, an error reply and, when the command is issued on its own,
\* the expected text followed by a data line, a proper prefix of the expected
\* text, an unrelated line, the empty text.  Each recv() may also time out.
ListReplies == {Data(LIST_A1), Data(LIST_NONE), Timeout}
DevReplies == {Data(DEV_ACK_OK), Data(DEV_ERR), Timeout}
PauseReplies == {Data(PAUSE_ON_ACK), Data(PAUSE_ERR), Timeout}
SubReplies(subscription) ==
    {Data(SUB_ACK_OK(subscription)), Data(SUB_FAIL(subscription)), Timeout}
PauseRepliesWide ==
    PauseReplies \cup
    {Data(PAUSE_ON_ACK \o GSR_LINE \o <<"\n">>),
     Data(SubSeq(PAUSE_ON_ACK, 1, Len(PAUSE_ON_ACK) - 1)), Data(<<>>)}
SubRepliesWide(subscription) ==
    SubReplies(subscription) \cup
    {Data(SUB_ACK_OK(subscription) \o GSR_LINE \o <<"\n">>),
     Data(GSR_LINE \o <<"\n">>), Data(<<>>)}
ResumeReplies ==
    {Data(PAUSE_OFF_ACK), Data(PAUSE_ERR), Data(PAUSE_ON_ACK), Data(<<>>),
     Data(GSR_LINE \o <<"\n">>), Data(PAUSE_OFF_ACK \o GSR_LINE \o <<"\n">>), Timeout}

RECURSIVE Scripts(_)
\* The sequences of recv() outcomes whose i-th element is drawn from the i-th
\* set of cands; a script ends at its first timeout, which ends the call.
Scripts(cands) ==
    IF cands = <<>> THEN {<<>>}
    ELSE {<<h>> \o t : h \in Head(cands) \ {Timeout}, t \in Scripts(Tail(cands))}
         \cup (IF Timeout \in Head(cands) THEN {<<Timeout>>} ELSE {})

(***************************************************************************)
(* The state.  E4Client keeps the socket self.s and, once run() or pause() *)
(* has returned, the flag self.running; it keeps no record of the phase of *)
(* the link.  The variable state is that phase, as the calls have driven   *)
(* it: Connected when s.connect() has returned, DeviceBound when           *)
(* _connect_device() has returned, Paused when _pause_stream() has         *)
(* returned, Streaming when _resume_stream() has returned, Disconnected    *)
(* initially and when s.close() has returned.  A method that raises leaves *)
(* the phase where the exception left it.                                  *)
(***************************************************************************)
VARIABLES
    device_id,      \* self.device_id
    subscriptions,  \* self.subscriptions
    s,              \* self.s: [id: which socket object, st: its condition]
    closed,         \* the ids of the socket objects that were close()d
    running,        \* self.running: "unset" until run() or pause() assigns it
    state,          \* the phase of the link the calls so far have driven it to
    last,           \* the record of the last call of a public operation
    poll,           \* where the call of poll_for_tag() in progress stands
    feed            \* the text the server sends in pieces, and what was read

vars == <<device_id, subscriptions, s, closed, running, state, last, poll, feed>>

NoExc == "none"

\* One thing a call did on the transport, in the order it did it: kind is
\* "connect", "send", "recv", "timeout", "shutdown", "close" or "socket" (a
\* new socket object was made); id is the socket object; text is what was
\* sent or received.
Ev(kind, id, text) == [kind |-> kind, id |-> id, text |-> text]

\* a logging.exception() record: the message's fixed part and its argument
Log(msg, arg) == [msg |-> msg, arg |-> arg]

\* the record of a call that has done nothing yet
NoCall ==
    [op |-> "none", arg |-> <<>>, pre |-> "Disconnected",
     events |-> <<>>, logged |-> <<>>, exc |-> NoExc, ret |-> <<>>]

\* No call of poll_for_tag() is in progress.  pc is "idle", "recv" (in
\* self._receive(), line 123) or "handle" (recv() has returned or raised:
\* outcome); reads are the texts read since the call began; cancel is the
\* caller's wish that the call end.
NoPoll == [pc |-> "idle", reads |-> <<>>, outcome |-> <<>>, cancel |-> FALSE]

\* The server has no text to send in pieces.  whole is the text, rest what
\* of it is still to be received, lines the lines get_data() has split off
\* the pieces read so far, chunks the number of pieces read.
NoFeed == [whole |-> <<>>, rest |-> <<>>, lines |-> <<>>, chunks |-> 0]

\* The context a call runs in: the fields of self it reads and writes, what
\* it did so far, the exception it raised (NoExc while it runs normally; a
\* step of a call that has raised does nothing), and its inputs: the
\* outcomes of its recv() calls in order (script) and whether the server
\* accepts a connection (reachable).
Begin(script, reachable) ==
    [s |-> s, closed |-> closed, running |-> running, state |-> state,
     events |-> <<>>, logged |-> <<>>, exc |-> NoExc, resp |-> <<>>,
     ret |-> <<>>, script |-> script, reachable |-> reachable]

Raise(c, e) == [c EXCEPT !.exc = e]

(***************************************************************************)
(* The socket, as client.py uses it.  st is "fresh" (never connected),     *)
(* "connected", "broken" (connected, and the peer has reset the            *)
(* connection), "shutdown" or "closed".                                    *)
(***************************************************************************)
\* self.s.connect((self.ip, self.port)): OSError when the server refuses or
\* when the socket is already connected (EISCONN)
sock_connect(c) ==
    IF c.exc # NoExc THEN c
    ELSE IF c.s.st = "fresh" /\ c.reachable
    THEN [c EXCEPT !.s.st = "connected", !.state = "Connected",
                   !.events = Append(@, Ev("connect", c.s.id, <<>>))]
    ELSE Raise(c, "OSError")

\* self.s.send(text.encode())
sock_send(c, text) ==
    IF c.exc # NoExc THEN c
    ELSE IF c.s.st = "connected"
    THEN [c EXCEPT !.events = Append(@, Ev("send", c.s.id, text))]
    ELSE Raise(c, "OSError")

\* self.s.recv(self.buffer_size).decode('utf-8'): the response, or
\* socket.timeout
sock_recv(c) ==
    IF c.exc # NoExc THEN c
    ELSE IF c.s.st # "connected" THEN Raise(c, "OSError")
    ELSE LET r == Head(c.script)
         IN  IF r.kind = "timeout"
             THEN [c EXCEPT !.exc = "socket.timeout", !.script = Tail(@),
                            !.events = Append(@, Ev("timeout", c.s.id, <<>>))]
             ELSE [c EXCEPT !.resp = r.text, !.script = Tail(@),
                            !.events = Append(@, Ev("recv", c.s.id, r.text))]

\* self.s.shutdown(socket.SHUT_RDWR): OSError (ENOTCONN) unless connected
sock_shutdown(c) ==
    IF c.exc # NoExc THEN c
    ELSE IF c.s.st = "connected"
    THEN [c EXCEPT !.s.st = "shutdown",
                   !.events = Append(@, Ev("shutdown", c.s.id, <<>>))]
    ELSE Raise(c, "OSError")

\* self.s.close()
sock_close(c) ==
    IF c.exc # NoExc THEN c
    ELSE [c EXCEPT !.s.st = "closed", !.closed = @ \cup {c.s.id},
                   !.state = "Disconnected",
                   !.events = Append(@, Ev("close", c.s.id, <<>>))]

\* self.s = socket.socket(...); self.s.settimeout(self.timeout)
sock_new(c) ==
    IF c.exc # NoExc THEN c
    ELSE [c EXCEPT !.s = [id |-> c.s.id + 1, st |-> "fresh"],
                   !.events = Append(@, Ev("socket", c.s.id + 1, <<>>))]

\* logging.exception(...): writes a record and returns
log_exception(c, msg, arg) ==
    IF c.exc # NoExc THEN c ELSE [c EXCEPT !.logged = Append(@, Log(msg, arg))]

(***************************************************************************)
(* The methods of E4Client.                                                *)
(***************************************************************************)
\* _pause_stream comparing the response with the acknowledgement of resume
_pause_stream_wrong_ack(c) ==
    LET c1 == sock_recv(sock_send(c, COMMAND_PAUSE))
        c2 == IF c1.exc = NoExc /\ c1.resp # PAUSE_OFF_ACK
              THEN log_exception(c1, "Could not pause stream.", <<>>)
              ELSE c1
    IN  IF c2.exc = NoExc THEN [c2 EXCEPT !.state = "Paused"] ELSE c2

_pause_stream(c) ==
    LET c1 == sock_recv(sock_send(c, COMMAND_PAUSE))
        c2 == IF c1.exc = NoExc /\ c1.resp # PAUSE_ON_ACK
              THEN log_exception(c1, "Could not pause stream.", <<>>)
              ELSE c1
    IN  IF c2.exc = NoExc THEN [c2 EXCEPT !.state = "Paused"] ELSE c2

\* _resume_stream checking the response as _pause_stream does
_resume_stream_checked(c) ==
    LET c1 == sock_recv(sock_send(c, COMMAND_RESUME))
        c2 == IF c1.exc = NoExc /\ c1.resp # PAUSE_OFF_ACK
              THEN log_exception(c1, "Could not resume stream.", <<>>)
              ELSE c1
    IN  IF c2.exc = NoExc THEN [c2 EXCEPT !.state = "Streaming"] ELSE c2

\* _resume_stream without its recv()
_resume_stream_unread(c) ==
    LET c1 == sock_send(c, COMMAND_RESUME)
    IN  IF c1.exc = NoExc THEN [c1 EXCEPT !.state = "Streaming"] ELSE c1

_resume_stream(c) ==
    LET c1 == sock_recv(sock_send(c, COMMAND_RESUME))
    IN  IF c1.exc = NoExc THEN [c1 EXCEPT !.state = "Streaming"] ELSE c1

_connect_device(c) ==
    LET c1 == sock_recv(sock_send(c, COMMAND_LIST))
        c2 == IF c1.exc = NoExc /\ ~Contains(device_id, c1.resp)
              THEN log_exception(c1, "Device ID not in available devices.", device_id)
              ELSE c1
        c3 == sock_recv(sock_send(c2, COMMAND_DEV_CONNECT(device_id)))
        c4 == IF c3.exc = NoExc /\ c3.resp # DEV_ACK_OK
              THEN log_exception(c3, "Could not subscribe to device", device_id)
              ELSE c3
    IN  IF c4.exc = NoExc THEN [c4 EXCEPT !.state = "DeviceBound"] ELSE c4

subscribe(c, subscription) ==
    LET c1 == sock_recv(sock_send(c, SEND_SUBSCRIBE_L(subscription)))
    IN  IF c1.exc = NoExc /\ c1.resp # RECV_SUB_OK_L(subscription)
        THEN log_exception(c1, "Could not subscripe to type", subscription)
        ELSE c1

RECURSIVE subscribe_each(_, _)
\* for sub in subs: self.subscribe(sub)
subscribe_each(c, subs) ==
    IF subs = <<>> THEN c
    ELSE subscribe_each(subscribe(c, Head(subs)), Tail(subs))

connect(c) ==
    subscribe_each(_pause_stream(_connect_device(sock_connect(c))), subscriptions)

reset(c) == connect(sock_new(sock_close(sock_shutdown(c))))

reconnect(c) == connect(reset(c))

run(c) ==
    LET c1 == _resume_stream(c)
    IN  IF c1.exc = NoExc THEN [c1 EXCEPT !.running = "True"] ELSE c1

pause(c) ==
    LET c1 == _pause_stream(c)
    IN  IF c1.exc = NoExc THEN [c1 EXCEPT !.running = "False"] ELSE c1

\* msg.SEND.DISCONNECT.encode(): DISCONNECT is a member of the Enum _Send
\* (messages.py line 6), not a str, and an Enum member has no attribute
\* encode; evaluating the argument of send() raises AttributeError.
SEND_DISCONNECT_encode(c) ==
    IF c.exc # NoExc THEN c ELSE Raise(c, "AttributeError")

disconnect(c) ==
    sock_close(sock_shutdown(sock_send(SEND_DISCONNECT_encode(c), COMMAND_DISCONNECT)))

(***************************************************************************)
(* Decoding the stream.                                                    *)
(***************************************************************************)
E4_Acc == <<"E", "4", "_", "A", "c", "c">>

_split_response(response) == SplitOn(response, {"\n"}, <<>>)

\* _is_data_packet without its test of the first character
_is_data_packet_no_ack_test(packet) ==
    IF packet = <<>> THEN FALSE ELSE TRUE

_is_data_packet(packet) ==
    IF packet = <<>> THEN FALSE
    ELSE IF packet[1] = "R" THEN FALSE
    ELSE TRUE

\* What evaluating float(tokens[i].replace(',', '.')) raises, i counted from
\* 0 as in the source: IndexError when there is no such token, ValueError
\* when it is no number, NoExc otherwise.
FieldExc(tokens, i) ==
    IF Len(tokens) < i + 1 THEN "IndexError"
    ELSE IF ~IsFloat(Replace(tokens[i + 1], ",", ".")) THEN "ValueError"
    ELSE NoExc

\* float(tokens[i].replace(',', '.')) when it raises nothing
Field(tokens, i) == FloatVal(Replace(tokens[i + 1], ",", "."))

RECURSIVE FirstExc(_, _)
\* the first exception raised evaluating the fields idx in order
FirstExc(tokens, idx) ==
    IF idx = <<>> THEN NoExc
    ELSE IF FieldExc(tokens, Head(idx)) # NoExc THEN FieldExc(tokens, Head(idx))
    ELSE FirstExc(tokens, Tail(idx))

\* _parse_packet taking every stream, E4_Acc too, to carry one number
_parse_packet_one_number(packet) ==
    LET tokens == Tokens(packet)
        none   == [exc |-> NoExc, stream |-> <<>>, timestamp |-> <<>>,
                   kind |-> "none", data |-> <<>>]
        e      == FirstExc(tokens, <<1, 2>>)
    IN  IF tokens = <<>> THEN [none EXCEPT !.exc = "IndexError"]
        ELSE IF e # NoExc THEN [none EXCEPT !.exc = e]
        ELSE [exc |-> NoExc, stream |-> tokens[1], timestamp |-> Field(tokens, 1),
              kind |-> "scalar", data |-> <<Field(tokens, 2)>>]

\* The result of _parse_packet: exc is what it raises; when it raises
\* nothing, (stream, timestamp, data), data being a float ("scalar") or a
\* tuple of three.
_parse_packet(packet) ==
    LET tokens == Tokens(packet)
        none   == [exc |-> NoExc, stream |-> <<>>, timestamp |-> <<>>,
                   kind |-> "none", data |-> <<>>]
    IN  IF tokens = <<>> THEN [none EXCEPT !.exc = "IndexError"]
        ELSE LET idx == IF tokens[1] = E4_Acc THEN <<1, 2, 3, 4>> ELSE <<1, 2>>
                 e   == FirstExc(tokens, idx)
             IN  IF e # NoExc THEN [none EXCEPT !.exc = e]
                 ELSE [exc |-> NoExc, stream |-> tokens[1],
                       timestamp |-> Field(tokens, 1),
                       kind |-> IF tokens[1] = E4_Acc THEN "tuple" ELSE "scalar",
                       data |-> [i \in 1..(Len(idx) - 1) |-> Field(tokens, i + 1)]]

get_data(c) ==
    LET c1 == sock_recv(c)
        c2 == IF c1.exc = NoExc /\ Contains(DISCONNECT_MESSAGE, c1.resp)
              THEN log_exception(c1, "Lost connection to device", device_id)
              ELSE c1
        packets == SelectSeq(_split_response(c2.resp), _is_data_packet)
        parsed  == [i \in 1..Len(packets) |-> _parse_packet(packets[i])]
        bad     == {i \in 1..Len(packets) : parsed[i].exc # NoExc}
    IN  IF c2.exc # NoExc THEN c2
        ELSE IF bad # {}
        THEN Raise(c2, parsed[CHOOSE i \in bad : \A j \in bad : i <= j].exc)
        ELSE [c2 EXCEPT !.ret = parsed]

(***************************************************************************)
(* What recv() may return while the stream is read: up to MaxLines lines,  *)
(* each ended by a line feed.                                              *)
(***************************************************************************)
ACC_LINE ==
    <<"E", "4", "_", "A", "c", "c", " ", "1", " ", "2", " ", "3", ",", "0", " ", "4">>
TAG_LINE == <<"E", "4", "_", "T", "a", "g", " ", "1", "2", ",", "5", "0">>
ACK_LINE == <<"R", " ", "p", "a", "u", "s", "e", " ", "O", "N">>
LOST_LINE == <<"R", " ">> \o DISCONNECT_MESSAGE \o <<" ", "A", "1">>

StreamLines == {GSR_LINE, ACC_LINE, TAG_LINE, ACK_LINE, LOST_LINE, <<>>}

RECURSIVE LinesText(_)
\* the text of lines ls, each followed by a line feed
LinesText(ls) ==
    IF ls = <<>> THEN <<>> ELSE Head(ls) \o <<"\n">> \o LinesText(Tail(ls))

ReadTexts ==
    {LinesText(ls) : ls \in UNION {[1..n -> StreamLines] : n \in 0..MaxLines}}

ReadRepliesWide == {Data(t) : t \in ReadTexts} \cup {Timeout}

ReadReplies ==
    {Data(LinesText(<<GSR_LINE>>)), Data(LinesText(<<LOST_LINE, GSR_LINE>>)), Timeout}

(***************************************************************************)
(* The behaviours: the constructor, then calls of the public methods, one  *)
(* at a time, and the peer resetting the connection.                       *)
(***************************************************************************)
\* E4Client.__init__
Init ==
    /\ device_id \in DeviceIds
    /\ subscriptions \in SubscriptionLists
    /\ s = [id |-> 1, st |-> "fresh"]
    /\ closed = {}
    /\ running = "unset"
    /\ state = "Disconnected"
    /\ last = NoCall
    /\ poll = NoPoll
    /\ feed = NoFeed

\* the call of op with argument arg has run to c
Commit(op, arg, c) ==
    /\ poll.pc = "idle"
    /\ s' = c.s
    /\ closed' = c.closed
    /\ running' = c.running
    /\ state' = c.state
    /\ last' = [op |-> op, arg |-> arg, pre |-> state, events |-> c.events,
                logged |-> c.logged, exc |-> c.exc, ret |-> c.ret]
    /\ UNCHANGED <<device_id, subscriptions, poll>>

\* a call that does not read the text the server sends in pieces
Call(op, arg, c) == Commit(op, arg, c) /\ UNCHANGED feed

\* the outcomes of the recv() calls of connect(), one per command
ConnectScripts ==
    Scripts(<<ListReplies, DevReplies, PauseReplies>>
            \o [i \in 1..Len(subscriptions) |-> SubReplies(subscriptions[i])])

\* the script on which every command of connect() gets its expected answer
GoodScript ==
    <<Data(LIST_A1), Data(DEV_ACK_OK), Data(PAUSE_ON_ACK)>>
    \o [i \in 1..Len(subscriptions) |-> Data(SUB_ACK_OK(subscriptions[i]))]

\* for the connect() that a reset() ends with: every answer as expected, no
\* answer as expected, a timeout on the first answer
ResetScripts ==
    {GoodScript,
     <<Data(LIST_NONE), Data(DEV_ERR), Data(PAUSE_ERR)>>
        \o [i \in 1..Len(subscriptions) |-> Data(SUB_FAIL(subscriptions[i]))],
     <<Timeout>>}

\* The inputs a call reads: a script when it gets as far as its first recv(),
\* which takes a socket in condition st and, when the call connects, a server
\* that accepts the connection.
Inputs(scripts, st, reachables) ==
    {[script |-> IF s.st = st /\ r THEN sc ELSE <<>>, reachable |-> r] :
        sc \in scripts, r \in reachables}

ConnectWith(scripts, reachables) ==
    \E in \in Inputs(scripts, "fresh", reachables) :
        Call("connect", <<>>, connect(Begin(in.script, in.reachable)))

ResetWith(scripts, reachables) ==
    /\ s.id < MaxSockets
    /\ \E in \in Inputs(scripts, "connected", reachables) :
           Call("reset", <<>>, reset(Begin(in.script, in.reachable)))

ReconnectWith(scripts, reachables) ==
    /\ s.id < MaxSockets
    /\ \E in \in Inputs(scripts, "connected", reachables) :
           Call("reconnect", <<>>, reconnect(Begin(in.script, in.reachable)))

RunWith(replies) ==
    \E in \in Inputs({<<r>> : r \in replies}, "connected", {TRUE}) :
        Call("run", <<>>, run(Begin(in.script, TRUE)))

PauseWith(replies) ==
    \E in \in Inputs({<<r>> : r \in replies}, "connected", {TRUE}) :
        Call("pause", <<>>, pause(Begin(in.script, TRUE)))

SubscribeWith(sub, replies) ==
    \E in \in Inputs({<<r>> : r \in replies}, "connected", {TRUE}) :
        Call("subscribe", sub, subscribe(Begin(in.script, TRUE), sub))

GetDataWith(replies) ==
    \E in \in Inputs({<<r>> : r \in replies}, "connected", {TRUE}) :
        Call("get_data", <<>>, get_data(Begin(in.script, TRUE)))

Connect == ConnectWith(ConnectScripts, BOOLEAN)

Reset == ResetWith(ResetScripts, BOOLEAN)

Reconnect == ReconnectWith(ResetScripts, BOOLEAN)

Run == RunWith(ResumeReplies)

Pause == PauseWith(PauseRepliesWide)

Subscribe == \E sub \in {AllCodes[1], AllCodes[2]} : SubscribeWith(sub, SubRepliesWide(sub))

Disconnect == Call("disconnect", <<>>, disconnect(Begin(<<>>, TRUE)))

GetData == GetDataWith(ReadReplies)

\* the peer resets the connection
PeerReset ==
    /\ s.st = "connected"
    /\ s' = [s EXCEPT !.st = "broken"]
    /\ UNCHANGED <<device_id, subscriptions, closed, running, state, last, poll, feed>>

Next ==
    \/ Connect
    \/ Reset
    \/ Reconnect
    \/ Run
    \/ Pause
    \/ Subscribe
    \/ Disconnect
    \/ GetData
    \/ PeerReset

Spec == Init /\ [][Next]_vars

(***************************************************************************)
(* The behaviours in which the stream is read: a client for device A1 is   *)
(* brought up with every command answered as expected, and get_data()      *)
(* reads every text of ReadTexts.                                          *)
(***************************************************************************)
InitData == Init /\ device_id = <<"A", "1">>

ConnectGood == ConnectWith({GoodScript}, {TRUE})

RunGood == RunWith({Data(PAUSE_OFF_ACK)})

PauseGood == PauseWith({Data(PAUSE_ON_ACK)})

GetDataWide == GetDataWith(ReadRepliesWide)

NextData ==
    \/ ConnectGood
    \/ RunGood
    \/ PauseGood
    \/ GetDataWide

SpecData == InitData /\ [][NextData]_vars

(***************************************************************************)
(* What the properties below read off the record of the last call.         *)
(***************************************************************************)
\* the texts a call sent, in order
SentTexts(evs) ==
    LET sends == SelectSeq(evs, LAMBDA e : e.kind = "send")
    IN  [i \in 1..Len(sends) |-> sends[i].text]

\* the texts a call received, in order
RcvdTexts(evs) ==
    LET recvs == SelectSeq(evs, LAMBDA e : e.kind = "recv")
    IN  [i \in 1..Len(recvs) |-> recvs[i].text]

\* how many things of a kind a call did
Count(evs, kind) == Len(SelectSeq(evs, LAMBDA e : e.kind = kind))

\* the protocol's table of acknowledgements (spec section 6): whether text r
\* is the answer the protocol expects to command cmd
Answers(cmd, r) ==
    IF cmd = COMMAND_LIST THEN Contains(device_id, r)
    ELSE IF cmd = COMMAND_DEV_CONNECT(device_id) THEN r = DEV_ACK_OK
    ELSE IF cmd = COMMAND_PAUSE THEN r = PAUSE_ON_ACK
    ELSE \E i \in 1..Len(AllCodes) :
            cmd = COMMAND_SUBSCRIBE(AllCodes[i]) /\ r = SUB_ACK_OK(AllCodes[i])

\* the commands whose answer must be the exact acknowledgement
AckChecked(cmd) == cmd # COMMAND_LIST /\ cmd # COMMAND_RESUME

\* the call connected and every command it sent got the expected answer
AllAnswered(evs) ==
    /\ Count(evs, "connect") = 1
    /\ Count(evs, "timeout") = 0
    /\ \A i \in 2..Len(evs) :
           evs[i].kind = "recv" => Answers(evs[i - 1].text, evs[i].text)

\* the commands of the connect sequence, in order
ConnectSequence ==
    <<COMMAND_LIST, COMMAND_DEV_CONNECT(device_id), COMMAND_PAUSE>>
    \o [i \in 1..Len(subscriptions) |-> COMMAND_SUBSCRIBE(subscriptions[i])]

ConnectedStates == {"Connected", "DeviceBound", "Paused", "Streaming"}

C2_DeviceNotFound ==
    (/\ last.op = "connect"
     /\ RcvdTexts(last.events) # <<>>
     /\ ~Contains(device_id, RcvdTexts(last.events)[1]))
    => (last.exc # NoExc /\ state = "Disconnected")

(***************************************************************************)
(* C3.  During connect(), the first acknowledgement that differs from the  *)
(* expected text (for ConnectDevice, Pause or a Subscribe) aborts the      *)
(* operation: the call raises, nothing is sent after the mismatch, and the *)
(* session does not reach the state the mismatched step would have         *)
(* produced.                                                               *)
(***************************************************************************)
C3_MismatchAborts ==
    last.op = "connect" =>
        \A i \in 2..Len(last.events) :
            (/\ last.events[i].kind = "recv"
             /\ AckChecked(last.events[i - 1].text)
             /\ ~Answers(last.events[i - 1].text, last.events[i].text))
            => /\ last.exc # NoExc
               /\ \A j \in (i + 1)..Len(last.events) : last.events[j].kind # "send"
               /\ last.events[i - 1].text = COMMAND_DEV_CONNECT(device_id)
                      => state \notin {"DeviceBound", "Paused"}
               /\ last.events[i - 1].text = COMMAND_PAUSE => state # "Paused"

(***************************************************************************)
(* C4.  pause() called in state Streaming or DeviceBound sends Pause and   *)
(* moves to Paused if and only if the reply is exactly 'R pause ON\n'; on  *)
(* any other reply (also one that starts with or contains that text) it    *)
(* fails and the session is not recorded as paused.                        *)
(***************************************************************************)
C4_PauseExactAck ==
    (/\ last.op = "pause"
     /\ last.pre \in {"Streaming", "DeviceBound"}
     /\ RcvdTexts(last.events) # <<>>)
    => /\ SentTexts(last.events) = <<COMMAND_PAUSE>>
       /\ state = "Paused" <=> RcvdTexts(last.events)[1] = PAUSE_ON_ACK
       /\ RcvdTexts(last.events)[1] # PAUSE_ON_ACK
              => (last.exc # NoExc /\ running # "False")

(***************************************************************************)
(* C5.  subscribe(code) in state Paused or Streaming sends Subscribe(code);*)
(* it succeeds when the reply is exactly 'R device_subscribe <code> OK\n'  *)
(* and fails for any other reply, and in both cases the session state      *)
(* after the call equals the state before it.                              *)
(***************************************************************************)
C5_SubscribeAck ==
    (/\ last.op = "subscribe"
     /\ last.pre \in {"Paused", "Streaming"}
     /\ RcvdTexts(last.events) # <<>>)
    => /\ SentTexts(last.events) = <<COMMAND_SUBSCRIBE(last.arg)>>
       /\ RcvdTexts(last.events)[1] = SUB_ACK_OK(last.arg)
              => (last.exc = NoExc /\ last.logged = <<>>)
       /\ RcvdTexts(last.events)[1] # SUB_ACK_OK(last.arg) => last.exc # NoExc
       /\ state = last.pre

(***************************************************************************)
(* C6.  resume() (run) called in state Paused sends exactly one Resume     *)
(* command, 'pause OFF\r\n', and moves the session to Streaming for every  *)
(* content of the server's reply; the reply is never compared to an        *)
(* expected acknowledgement and never causes an error.                     *)
(***************************************************************************)
C6_ResumeUnvalidated ==
    (/\ last.op = "run"
     /\ last.pre = "Paused"
     /\ RcvdTexts(last.events) # <<>>)
    => /\ SentTexts(last.events) =
              <<<<"p", "a", "u", "s", "e", " ", "O", "F", "F", "\r", "\n">>>>
       /\ Count(last.events, "recv") = 1
       /\ state = "Streaming"
       /\ running = "True"
       /\ last.exc = NoExc
       /\ last.logged = <<>>

C6_Witness ==
    /\ last.op = "run" /\ last.pre = "Paused"
    /\ RcvdTexts(last.events) # <<>>
    /\ RcvdTexts(last.events)[1] # PAUSE_OFF_ACK
    /\ state = "Streaming"

(***************************************************************************)
(* C7.  disconnect() from any connected state always ends with the         *)
(* transport closed and the state Disconnected, whether the send of the    *)
(* Disconnect command succeeds or fails, and never raises an error of the  *)
(* transport.                                                              *)
(***************************************************************************)
C7_DisconnectCloses ==
    (last.op = "disconnect" /\ last.pre \in ConnectedStates)
    => /\ s.st = "closed"
       /\ state = "Disconnected"
       /\ last.exc # "OSError"

(***************************************************************************)
(* C8.  reconnect() has the effect of disconnect() with its errors ignored *)
(* followed by one fresh connect(): when the server accepts the new        *)
(* connection and answers every command as expected, the Disconnect        *)
(* command is sent, the previous transport is closed before the new one is *)
(* made, exactly one new transport is opened, the connect sequence runs    *)
(* exactly once, and the call ends as connect() does: in state Paused with *)
(* no error.                                                               *)
(***************************************************************************)
C8_ReconnectIsDisconnectConnect ==
    (/\ last.op = "reconnect"
     /\ last.pre \in ConnectedStates
     /\ AllAnswered(last.events))
    => /\ SentTexts(last.events) = <<COMMAND_DISCONNECT>> \o ConnectSequence
       /\ Count(last.events, "socket") = 1
       /\ Count(last.events, "connect") = 1
       /\ \A i, j \in 1..Len(last.events) :
              (last.events[i].kind = "close" /\ last.events[j].kind = "socket") => i < j
       /\ state = "Paused"
       /\ last.exc = NoExc

(***************************************************************************)
(* C9.  get_data() fails and returns no samples whenever the text it reads *)
(* contains the phrase 'connection lost to device', also when the same     *)
(* read holds well-formed data lines.                                      *)
(***************************************************************************)
C9_ConnectionLost ==
    (/\ last.op = "get_data"
     /\ RcvdTexts(last.events) # <<>>
     /\ Contains(DISCONNECT_MESSAGE, RcvdTexts(last.events)[1]))
    => (last.exc # NoExc /\ last.ret = <<>>)

(***************************************************************************)
(* C10.  For every sequence of lines read by get_data(), the samples it    *)
(* returns correspond one-to-one and in order to the non-empty lines whose *)
(* first character is not 'R': whenever it returns, it returns one sample  *)
(* per such line, in order, with that line's stream code; a line beginning *)
(* with 'R' is never decoded as a sample, and an empty line yields neither *)
(* a sample nor an error (a read of only such lines returns no samples and *)
(* raises nothing).                                                        *)
(***************************************************************************)
\* the non-empty lines of text that do not begin with 'R'
DataLines(text) ==
    SelectSeq(SplitOn(text, {"\n"}, <<>>), LAMBDA l : l # <<>> /\ l[1] # "R")

C10_SamplesAreDataLines ==
    (last.op = "get_data" /\ RcvdTexts(last.events) # <<>>)
    => LET lines == DataLines(RcvdTexts(last.events)[1])
       IN  /\ last.exc = NoExc =>
                  /\ Len(last.ret) = Len(lines)
                  /\ \A i \in 1..Len(lines) :
                         /\ last.ret[i].stream = Tokens(lines[i])[1]
                         /\ last.ret[i].stream[1] # "R"
           /\ lines = <<>> => (last.exc = NoExc /\ last.ret = <<>>)

C10_Witness ==
    /\ last.op = "get_data" /\ last.exc = NoExc
    /\ RcvdTexts(last.events) = <<LinesText(<<ACK_LINE, GSR_LINE>>)>>
    /\ Len(last.ret) = 1


-----------------------------------------------------------------------------
\* Reads of a text that arrives in pieces.  TCP delivers the bytes the server
\* wrote in any number of consecutive pieces; each call of get_data() reads
\* one piece with one recv() (line 132) and splits that piece alone (line
\* 135): the object has no field that holds text between two calls.

MaxChunks == 2

ChunkBuffers == {LinesText(<<GSR_LINE>>), LinesText(<<ACK_LINE, GSR_LINE>>)}

\* the server writes a text to the connection
ServerSends ==
    /\ s.st = "connected" /\ poll.pc = "idle" /\ feed = NoFeed
    /\ \E text \in ChunkBuffers :
           feed' = [whole |-> text, rest |-> text, lines |-> <<>>, chunks |-> 0]
    /\ UNCHANGED <<device_id, subscriptions, s, closed, running, state, last, poll>>

\* get_data() reads the next piece, of any length; the last piece the bound
\* allows is all the text that is left
ReadChunk ==
    /\ s.st = "connected" /\ feed.rest # <<>> /\ feed.chunks < MaxChunks
    /\ \E k \in (IF feed.chunks + 1 = MaxChunks THEN {Len(feed.rest)}
                 ELSE 1..Len(feed.rest)) :
           LET chunk == SubSeq(feed.rest, 1, k)
           IN  /\ Commit("get_data", <<>>, get_data(Begin(<<Data(chunk)>>, TRUE)))
               /\ feed' = [feed EXCEPT
                              !.rest = SubSeq(feed.rest, k + 1, Len(feed.rest)),
                              !.lines = @ \o _split_response(chunk),
                              !.chunks = @ + 1]

NextChunks ==
    \/ ConnectGood
    \/ RunGood
    \/ ServerSends
    \/ ReadChunk

SpecChunks == InitData /\ [][NextChunks]_vars

\* the lines of a sequence of lines that are not empty
NonEmpty(lines) == SelectSeq(lines, LAMBDA l : l # <<>>)

\* the part of the text that has been read
Delivered == SubSeq(feed.whole, 1, Len(feed.whole) - Len(feed.rest))

\* the lines of a text that a line feed ends: what follows the last line
\* feed is not a line yet
CompleteLines(text) ==
    LET ls == SplitOn(text, {"\n"}, <<>>) IN SubSeq(ls, 1, Len(ls) - 1)

\* C11: however the text is cut into the pieces that successive reads
\* deliver, the lines decoded over the reads are the lines of the text read
\* so far that a line feed ends; what follows the last line feed of a read is
\* kept for the next read and is not given out as a line.  When all the text
\* has been read these are the lines one read of the whole text gives.
C11_ChunkingIndependent ==
    NonEmpty(feed.lines) = NonEmpty(CompleteLines(Delivered))

-----------------------------------------------------------------------------
\* _parse_packet over lines of every length: a stream code followed by none
\* to MaxTokens numbers, read by get_data() one line a read.

MaxTokens == 4

E4_Gsr == <<"E", "4", "_", "G", "s", "r">>
E4_Tag == <<"E", "4", "_", "T", "a", "g">>

NumberTokens ==
    << <<"1">>, <<"2", ",", "5">>, <<"3", ".", "0">>, <<"4">>,
       <<"7", ",", "2", "5">>, <<"6">> >>

RECURSIVE Joined(_)
\* the tokens, a space before each
Joined(tokens) ==
    IF tokens = <<>> THEN <<>> ELSE <<" ">> \o Head(tokens) \o Joined(Tail(tokens))

ParseLines ==
    {code \o Joined(SubSeq(NumberTokens, 1, n)) :
        code \in {E4_Acc, E4_Gsr, E4_Tag},
        n \in 0..(IF MaxTokens < Len(NumberTokens) THEN MaxTokens
                  ELSE Len(NumberTokens))}

GetDataParse == GetDataWith({Data(LinesText(<<l>>)) : l \in ParseLines})

NextParse ==
    \/ ConnectGood
    \/ RunGood
    \/ PauseGood
    \/ GetDataParse

SpecParse == InitData /\ [][NextParse]_vars

\* the number a token denotes, its comma read as a period
Number(token) == FloatVal(Replace(token, ",", "."))

\* the tokens of the one line that the last call of get_data() read
LineTokens == Tokens(CompleteLines(RcvdTexts(last.events)[1])[1])

\* get_data() has read one line of a stream code and numbers
ParsedLine ==
    /\ last.op = "get_data" /\ RcvdTexts(last.events) # <<>>
    /\ Len(CompleteLines(RcvdTexts(last.events)[1])) = 1
    /\ LineTokens # <<>> /\ LineTokens[1][1] # "R"
    /\ \A i \in 2..Len(LineTokens) : IsFloat(Replace(LineTokens[i], ",", "."))

\* C12: a line of the accelerometer code with exactly 3 payload tokens
\* decodes to a payload of 3 numbers, a line of another code with at least 1
\* payload token to one number, and a line with fewer payload tokens than
\* its code asks for (or without timestamp) fails and gives no sample.
C12_ArityTable ==
    ParsedLine =>
        LET tokens  == LineTokens
            payload == Len(tokens) - 2
            arity   == IF tokens[1] = E4_Acc THEN 3 ELSE 1
        IN  /\ (tokens[1] = E4_Acc /\ payload = 3) =>
                   /\ last.exc = NoExc /\ Len(last.ret) = 1
                   /\ last.ret[1].kind = "tuple"
                   /\ last.ret[1].timestamp = Number(tokens[2])
                   /\ last.ret[1].data =
                          <<Number(tokens[3]), Number(tokens[4]), Number(tokens[5])>>
            /\ (tokens[1] # E4_Acc /\ payload >= 1) =>
                   /\ last.exc = NoExc /\ Len(last.ret) = 1
                   /\ last.ret[1].kind = "scalar"
                   /\ last.ret[1].timestamp = Number(tokens[2])
                   /\ last.ret[1].data = <<Number(tokens[3])>>
            /\ payload < arity => (last.exc # NoExc /\ last.ret = <<>>)

\* an accelerometer line of 3 payload tokens has been decoded
C12_Witness ==
    /\ ParsedLine /\ LineTokens[1] = E4_Acc /\ Len(LineTokens) = 5
    /\ last.exc = NoExc /\ last.ret[1].kind = "tuple"

\* an accelerometer line of 2 payload tokens has failed
C12_WitnessShort ==
    /\ ParsedLine /\ LineTokens[1] = E4_Acc /\ Len(LineTokens) = 4
    /\ last.exc = "IndexError"

-----------------------------------------------------------------------------
\* poll_for_tag().  The call loops until a read holds a tag, so it is
\* modelled a step at a time: PollStart enters the loop, PollRecv is the
\* recv() of self._receive() returning or raising, PollExcept, PollRaise
\* and PollScan are what the loop body does with it.  No other method runs meanwhile (one thread).

MaxReads == 2

_receive(c) == sock_recv(c)

\* The result of _scan_for_tag: exc is what it raises; when it raises
\* nothing, found tells a float (value) from None.  The first packet that
\* holds "E4_Tag" anywhere decides.
_scan_for_tag(packets) ==
    LET hits == {i \in 1..Len(packets) : Contains(E4_Tag, packets[i])}
        i    == CHOOSE k \in hits : \A j \in hits : k <= j
        e    == FieldExc(Tokens(packets[i]), 1)
    IN  IF hits = {} THEN [exc |-> NoExc, found |-> FALSE, value |-> <<>>]
        ELSE IF e # NoExc THEN [exc |-> e, found |-> FALSE, value |-> <<>>]
        ELSE [exc |-> NoExc, found |-> TRUE, value |-> Field(Tokens(packets[i]), 1)]

\* What a read of poll_for_tag() may hold: a tag line, a data line and a
\* tag line, a data line, the first 8 characters of a tag line, the rest of
\* that line, a line of the sentinel, that line and a tag line.
TAG_HEAD == SubSeq(TAG_LINE, 1, 8)
TAG_REST == SubSeq(LinesText(<<TAG_LINE>>), 9, Len(TAG_LINE) + 1)

PollTexts ==
    {LinesText(<<TAG_LINE>>), LinesText(<<GSR_LINE, TAG_LINE>>),
     LinesText(<<GSR_LINE>>), TAG_HEAD, TAG_REST,
     LinesText(<<LOST_LINE>>), LinesText(<<LOST_LINE, TAG_LINE>>)}

\* a read may time out at any time; it may hold a text while the call has
\* read fewer than MaxReads texts
PollReplies(texts) ==
    {Timeout} \cup (IF Len(poll.reads) < MaxReads
                    THEN {Data(t) : t \in texts} ELSE {})

PollStart ==
    /\ poll.pc = "idle"
    /\ poll' = [pc |-> "recv", reads |-> <<>>, outcome |-> <<>>, cancel |-> FALSE]
    /\ UNCHANGED <<device_id, subscriptions, s, closed, running, state, last, feed>>

PollRecvWith(texts) ==
    /\ poll.pc = "recv"
    /\ \E r \in PollReplies(texts) :
           LET c == _receive(Begin(<<r>>, TRUE))
           IN  poll' = [poll EXCEPT !.pc = "handle",
                                    !.outcome = [exc |-> c.exc, resp |-> c.resp]]
    /\ UNCHANGED <<device_id, subscriptions, s, closed, running, state, last, feed>>

PollRecv == PollRecvWith(PollTexts)

\* no text arrives: every recv() times out (or fails, the peer having reset
\* the connection)
PollRecvNothing == PollRecvWith({})

\* poll_for_tag() returns ret or raises exc
PollEnd(reads, exc, ret) ==
    /\ poll' = [pc |-> "idle", reads |-> reads, outcome |-> <<>>, cancel |-> FALSE]
    /\ last' = [op |-> "poll_for_tag", arg |-> <<>>, pre |-> state,
                events |-> [i \in 1..Len(reads) |-> Ev("recv", s.id, reads[i])],
                logged |-> <<>>, exc |-> exc, ret |-> ret]

\* recv() timed out: the except clause (line 128) goes on to the next read
PollExcept ==
    /\ poll.pc = "handle" /\ poll.outcome.exc = "socket.timeout"
    /\ poll' = [poll EXCEPT !.pc = "recv", !.outcome = <<>>]
    /\ UNCHANGED <<device_id, subscriptions, s, closed, running, state, last, feed>>

\* recv() raised something else, which no clause catches
PollRaise ==
    /\ poll.pc = "handle" /\ poll.outcome.exc \notin {NoExc, "socket.timeout"}
    /\ PollEnd(poll.reads, poll.outcome.exc, <<>>)
    /\ UNCHANGED <<device_id, subscriptions, s, closed, running, state, feed>>

\* recv() returned a text: lines 124-127
PollScan ==
    /\ poll.pc = "handle" /\ poll.outcome.exc = NoExc
    /\ LET reads == Append(poll.reads, poll.outcome.resp)
           scan  == _scan_for_tag(_split_response(poll.outcome.resp))
       IN  \/ scan.exc # NoExc /\ PollEnd(reads, scan.exc, <<>>)
           \/ scan.exc = NoExc /\ scan.found /\ PollEnd(reads, NoExc, <<scan.value>>)
           \/ /\ scan.exc = NoExc /\ ~scan.found
              /\ poll' = [poll EXCEPT !.pc = "recv", !.outcome = <<>>, !.reads = reads]
              /\ UNCHANGED last
    /\ UNCHANGED <<device_id, subscriptions, s, closed, running, state, feed>>

\* the caller of poll_for_tag() wishes the call to end
Cancel ==
    /\ poll.pc # "idle" /\ ~poll.cancel
    /\ poll' = [poll EXCEPT !.cancel = TRUE]
    /\ UNCHANGED <<device_id, subscriptions, s, closed, running, state, last, feed>>

NextPoll ==
    \/ ConnectGood
    \/ RunGood
    \/ PollStart
    \/ PollRecv
    \/ PollExcept
    \/ PollRaise
    \/ PollScan
    \/ Cancel
    \/ PeerReset

SpecPoll == InitData /\ [][NextPoll]_vars

NextPollNothing ==
    \/ ConnectGood
    \/ RunGood
    \/ PauseGood
    \/ PollStart
    \/ PollRecvNothing
    \/ PollExcept
    \/ PollRaise
    \/ Cancel
    \/ PeerReset

\* poll_for_tag() when no text arrives.  The thread that called it keeps
\* running, and a recv() under settimeout (line 62) returns or raises within
\* the timeout.
SpecPollFair ==
    /\ InitData /\ [][NextPollNothing]_vars
    /\ WF_vars(PollRecvNothing) /\ WF_vars(PollExcept) /\ WF_vars(PollRaise)

RECURSIVE Concat(_)
\* the texts of a sequence of reads, one after the other
Concat(texts) == IF texts = <<>> THEN <<>> ELSE Head(texts) \o Concat(Tail(texts))

\* the tag samples that have arrived: the complete lines, over all the reads
\* of the call, whose stream code is E4_Tag
TagSamples ==
    SelectSeq(CompleteLines(Concat(poll.reads)),
              LAMBDA l : Tokens(l) # <<>> /\ Tokens(l)[1] = E4_Tag)

\* poll_for_tag() has returned a timestamp
PollReturned == poll.pc = "idle" /\ last.op = "poll_for_tag" /\ last.exc = NoExc

\* C13: the timestamp poll_for_tag() returns is that of the first sample, in
\* arrival order over all its reads, whose stream code is E4_Tag, its comma
\* read as a period; no other text is the source of the timestamp.
C13_FirstTagTimestamp ==
    PollReturned =>
        /\ TagSamples # <<>>
        /\ Len(Tokens(TagSamples[1])) >= 2
        /\ last.ret = <<Number(Tokens(TagSamples[1])[2])>>

\* C14: once the caller has set the cancellation signal, poll_for_tag()
\* eventually returns, even if every read times out and no tag arrives.
C14_CancelEndsPolling ==
    (poll.pc # "idle" /\ poll.cancel) ~> (poll.pc = "idle")

\* some read of the call held the sentinel
SentinelRead ==
    \E i \in 1..Len(poll.reads) : Contains(DISCONNECT_MESSAGE, poll.reads[i])

\* C15: when a read of poll_for_tag() holds the sentinel, the call fails:
\* it neither goes on to the next read nor returns a timestamp.
C15_PollConnectionLost ==
    /\ (poll.pc = "recv" => ~SentinelRead)
    /\ (poll.pc = "idle" /\ last.op = "poll_for_tag" /\ SentinelRead)
           => (last.exc # NoExc /\ last.ret = <<>>)

-----------------------------------------------------------------------------
\* the call did nothing on the transport
NoTraffic == Count(last.events, "send") = 0 /\ Count(last.events, "recv") = 0

\* C16: the phase starts at Disconnected and a call changes it only along
\* the allowed edges: connect() from Disconnected along Connected,
\* DeviceBound, Paused; run() from Paused to Streaming; pause() from
\* Streaming or DeviceBound to Paused; disconnect() from a connected phase to
\* Disconnected.  connect() acts only in Disconnected, run() only in Paused,
\* get_data() only in Streaming or Paused.  (reset() and reconnect(), a
\* disconnect followed by a connect, are left free.)
C16_AllowedEdges ==
    /\ last.op = "none" => state = "Disconnected"
    /\ last.op = "connect" =>
           \/ state = last.pre /\ (last.pre # "Disconnected" => NoTraffic)
           \/ last.pre = "Disconnected" /\ state \in {"Connected", "DeviceBound", "Paused"}
    /\ last.op = "run" =>
           \/ state = last.pre /\ (last.pre # "Paused" => NoTraffic)
           \/ last.pre = "Paused" /\ state = "Streaming"
    /\ last.op = "pause" =>
           \/ state = last.pre
           \/ last.pre \in {"Streaming", "DeviceBound"} /\ state = "Paused"
    /\ last.op = "disconnect" =>
           \/ state = last.pre
           \/ last.pre \in ConnectedStates /\ state = "Disconnected"
    /\ last.op = "get_data" =>
           /\ state = last.pre
           /\ last.pre \notin {"Streaming", "Paused"} => NoTraffic
    /\ last.op \in {"subscribe", "poll_for_tag"} => state = last.pre

\* the object holds a transport that was connected and has not been closed
OpenTransport == s.st \in {"connected", "broken"}

\* the sends and receives of the last call were on a transport not yet closed
NoUseAfterClose ==
    \A i \in 1..Len(last.events) :
        last.events[i].kind \in {"send", "recv", "timeout"} =>
            \A j \in 1..(i - 1) :
                ~(last.events[j].kind = "close" /\ last.events[j].id = last.events[i].id)

\* C17: the object holds one transport at a time, and an open transport
\* exists exactly in the phases Connected, DeviceBound, Paused and Streaming:
\* there is none in Disconnected, initially and after disconnect(), and no
\* call sends or receives on a transport that has been closed.
C17_TransportOfPhase ==
    /\ OpenTransport <=> state \in ConnectedStates
    /\ s.id \in closed <=> s.st = "closed"
    /\ last.op \in {"none", "disconnect"} => (state = "Disconnected" /\ ~OpenTransport)
    /\ NoUseAfterClose

\* a recv() of the last call timed out
TimedOut == Count(last.events, "timeout") > 0

\* C18: a read timeout while a command waits for its acknowledgement (in
\* connect, pause or subscribe) is reported as a lost connection, a condition
\* other than the one a read timeout of get_data() is reported as, which is
\* the recoverable timeout and leaves the phase as it was.
C18_TimeoutKinds ==
    /\ (last.op \in {"connect", "pause", "subscribe"} /\ TimedOut)
           => last.exc \notin {NoExc, "socket.timeout"}
    /\ (last.op = "get_data" /\ TimedOut)
           => (last.exc = "socket.timeout" /\ state = last.pre)

-----------------------------------------------------------------------------
CRLF == <<"\r", "\n">>

EndsWith(t, suffix) ==
    Len(t) >= Len(suffix) /\ SubSeq(t, Len(t) - Len(suffix) + 1, Len(t)) = suffix

\* the texts of the wire table: the word(s) of the line
Word(cmd) ==
    CASE cmd = "list"       -> <<"d", "e", "v", "i", "c", "e", "_", "l", "i", "s", "t">>
      [] cmd = "connect"    -> <<"d", "e", "v", "i", "c", "e", "_", "c", "o", "n", "n", "e", "c", "t">>
      [] cmd = "subscribe"  -> <<"d", "e", "v", "i", "c", "e", "_", "s", "u", "b", "s", "c", "r", "i", "b", "e">>
      [] cmd = "disconnect" -> <<"d", "e", "v", "i", "c", "e", "_", "d", "i", "s", "c", "o", "n", "n", "e", "c", "t">>
      [] cmd = "pause"      -> <<"p", "a", "u", "s", "e">>

\* C19: the wire text of every command is its protocol line ending in CRLF,
\* the acknowledgement expected is its protocol line ending in LF alone, the
\* argument standing in it unchanged; and the constants of client.py and the
\* members of messages.py are the same texts, for every command,
\* acknowledgement and sentinel that both define.
C19_CatalogTexts ==
    /\ COMMAND_LIST = Word("list") \o CRLF
    /\ COMMAND_PAUSE = Word("pause") \o <<" ", "O", "N">> \o CRLF
    /\ COMMAND_RESUME = Word("pause") \o <<" ", "O", "F", "F">> \o CRLF
    /\ COMMAND_DISCONNECT = Word("disconnect") \o CRLF
    /\ COMMAND_DEV_CONNECT(device_id) = Word("connect") \o <<" ">> \o device_id \o CRLF
    /\ DEV_ACK_OK = <<"R", " ">> \o Word("connect") \o <<" ", "O", "K", "\n">>
    /\ PAUSE_ON_ACK = <<"R", " ">> \o Word("pause") \o <<" ", "O", "N", "\n">>
    /\ PAUSE_OFF_ACK = <<"R", " ">> \o Word("pause") \o <<" ", "O", "F", "F", "\n">>
    /\ \A a \in {DEV_ACK_OK, PAUSE_ON_ACK, PAUSE_OFF_ACK} : ~EndsWith(a, CRLF)
    /\ \A i \in 1..Len(AllCodes) :
           /\ COMMAND_SUBSCRIBE(AllCodes[i]) =
                  Word("subscribe") \o <<" ">> \o AllCodes[i] \o <<" ", "O", "N">> \o CRLF
           /\ SUB_ACK_OK(AllCodes[i]) =
                  <<"R", " ">> \o Word("subscribe") \o <<" ">> \o AllCodes[i]
                      \o <<" ", "O", "K", "\n">>
           /\ SEND_SUBSCRIBE_L(AllCodes[i]) = COMMAND_SUBSCRIBE(AllCodes[i])
           /\ RECV_SUB_OK_L(AllCodes[i]) = SUB_ACK_OK(AllCodes[i])
    /\ SEND_PAUSE = COMMAND_PAUSE
    /\ SEND_RESUME = COMMAND_RESUME
    /\ SEND_DISCONNECT = COMMAND_DISCONNECT
    /\ SEND_LIST = COMMAND_LIST
    /\ SEND_CONNECT_L(device_id) = COMMAND_DEV_CONNECT(device_id)
    /\ RECV_DEV_OK = DEV_ACK_OK
    /\ RECV_PAUSE_ON_ACK = PAUSE_ON_ACK
    /\ RECV_PAUSE_OFF_ACK = PAUSE_OFF_ACK
    /\ RECV_DISCONNECT_MESSAGE = DISCONNECT_MESSAGE

\* a call of recv(), whether it returned a text or timed out
IsReceive(e) == e.kind \in {"recv", "timeout"}

\* C20: control traffic is half-duplex: in every call, each command sent
\* (Disconnect apart) is followed at once by one call of recv() on the same
\* transport, which returns or times out, and by no second one, before
\* anything else is sent; so no call ends, and none begins, with a command
\* that has not been read for.
C20_HalfDuplex ==
    \A i \in 1..Len(last.events) :
        (last.events[i].kind = "send" /\ last.events[i].text # COMMAND_DISCONNECT) =>
            /\ i < Len(last.events)
            /\ IsReceive(last.events[i + 1])
            /\ last.events[i + 1].id = last.events[i].id
            /\ i + 2 <= Len(last.events) => ~IsReceive(last.events[i + 2])

\* connect() has sent the four kinds of command it sends and read for each
C20_Witness ==
    /\ last.op = "connect"
    /\ Count(last.events, "send") >= 4
    /\ Count(last.events, "recv") = Count(last.events, "send")

\* connect() has sent a command whose recv() timed out
C20_WitnessTimeout ==
    /\ last.op = "connect" /\ Count(last.events, "send") >= 2
    /\ Count(last.events, "timeout") = 1

=============================================================================
